---- MODULE Spec2Model ----
(***************************************************************************)
(* Model of tests/load/check_thresholds.py: the k6 load-test threshold     *)
(* checker.  main() walks the file arguments, analyze_results() loads one  *)
(* JSON document, extracts its metrics and runs the three threshold        *)
(* checks, and the process exits with 0 or 1.                              *)
(*                                                                         *)
(* JSON values are modelled by shape (dict, list, scalar, null, number).   *)
(* Numbers are Python floats: non-negative binary fixed-point bit vectors  *)
(* on which every arithmetic result is rounded to a 53-bit significand     *)
(* (round to nearest, ties to even), as IEEE-754 binary64 does.            *)
(***************************************************************************)
EXTENDS Integers, Sequences, FiniteSets, TLC

\* ------------------------------------------------------------------------
\* Bounds of the model
\* ------------------------------------------------------------------------
\* Largest number of file arguments after the program name.
MaxFiles == 2
\* Doubles taken on each side of the error-rate boundary fl(0.001).
RateUlps == 1
\* Fraction and integer bits of the fixed-point grid numbers live on.
FracBits == 64
IntBits == 10

\* Significand width of a Python float (IEEE-754 binary64).
MantBits == 53

W == FracBits + IntBits

Bit == {0, 1}

\* ------------------------------------------------------------------------
\* Exact arithmetic on bit vectors: index i has weight 2^(i - 1 - FracBits)
\* ------------------------------------------------------------------------
Pow2(n) == IF n = 0 THEN 1 ELSE IF n = 1 THEN 2 ELSE IF n = 2 THEN 4 ELSE 8

Zero == [i \in 1..W |-> 0]

\* The bit of weight 2^e alone.
Unit(e) == [i \in 1..W |-> IF i = e + 1 + FracBits THEN 1 ELSE 0]

\* The integer written by the hexadecimal digits digs (most significant
\* first), scaled by 2^lsbExp: float.hex() significand and exponent.
FromHex(digs, lsbExp) ==
    [i \in 1..W |->
        LET k == i - 1 - FracBits - lsbExp
        IN  IF k < 0 \/ k >= 4 * Len(digs) THEN 0
            ELSE (digs[Len(digs) - (k \div 4)] \div Pow2(k % 4)) % 2]

RECURSIVE AddFrom(_, _, _, _)
AddFrom(a, b, c, i) ==
    IF i > W THEN <<>>
    ELSE LET s == a[i] + b[i] + c
         IN  <<s % 2>> \o AddFrom(a, b, s \div 2, i + 1)

Add(a, b) == AddFrom(a, b, 0, 1)

\* a - b for a >= b (two's complement on W bits).
Sub(a, b) == AddFrom(a, [i \in 1..W |-> 1 - b[i]], 1, 1)

\* a * 2^k.
Shl(a, k) == [i \in 1..W |-> IF i - k >= 1 THEN a[i - k] ELSE 0]

RECURSIVE LeqFrom(_, _, _)
LeqFrom(a, b, i) ==
    IF i = 0 THEN TRUE
    ELSE IF a[i] /= b[i] THEN a[i] < b[i]
    ELSE LeqFrom(a, b, i - 1)

\* a <= b.
Leq(a, b) == LeqFrom(a, b, W)

\* a * 100 = a * 64 + a * 32 + a * 4, exactly.
Mul100(a) == Add(Add(Shl(a, 6), Shl(a, 5)), Shl(a, 2))

\* Index of the most significant set bit, 0 for zero.
TopBit(a) ==
    LET S == {i \in 1..W : a[i] = 1}
    IN  IF S = {} THEN 0 ELSE CHOOSE i \in S : \A j \in S : j <= i

\* Round to nearest double, ties to even: keep MantBits significant bits.
Round(a) ==
    LET p == TopBit(a)
        lsb == p - MantBits + 1
    IN  IF lsb <= 1 THEN a
        ELSE LET t == [i \in 1..W |-> IF i >= lsb THEN a[i] ELSE 0]
                 sticky == \E i \in 1..(lsb - 2) : a[i] = 1
                 up == a[lsb - 1] = 1 /\ (sticky \/ a[lsb] = 1)
             IN  IF up THEN Add(t, Unit(lsb - 1 - FracBits)) ELSE t

\* ------------------------------------------------------------------------
\* Python float operations used by the script
\* ------------------------------------------------------------------------
\* float * 100 (line 53).
FMul100(a) == Round(Mul100(a))

Hundred == FromHex(<<6, 4>>, 0)

\* 100 - float, for a value of at most 100 (line 140).
FSub100(a) == Round(Sub(Hundred, a))

\* ------------------------------------------------------------------------
\* JSON values as Python objects, by shape
\* ------------------------------------------------------------------------
Null == [t |-> "null"]
Num(b) == [t |-> "num", bits |-> b]
List(S) == [t |-> "list", elems |-> S]
Dict(f) == [t |-> "dict", map |-> f]

EmptyMap == <<>>

\* bool(v): empty containers, zero and None are falsy.
Truthy(v) ==
    CASE v.t = "dict" -> DOMAIN v.map /= {}
      [] v.t = "list" -> v.elems /= {}
      [] v.t = "num" -> v.bits /= Zero
      [] OTHER -> FALSE

\* `k in v` raises TypeError on a number or None.
ContainsRaises(v) == v.t \in {"num", "null"}

\* `k in v` on a container.
Contains(k, v) ==
    IF v.t = "dict" THEN k \in DOMAIN v.map ELSE k \in v.elems

\* v[k] with a string key raises unless v is a dict holding k.
SubscriptRaises(v, k) == ~(v.t = "dict" /\ k \in DOMAIN v.map)

Subscript(v, k) == v.map[k]

\* v.get(k, d) raises AttributeError unless v is a dict.
GetRaises(v) == v.t /= "dict"

\* Variant: v.get(k) without the default.
Get_NoDefault(v, k, d) == IF k \in DOMAIN v.map THEN v.map[k] ELSE Null

Get(v, k, d) == IF k \in DOMAIN v.map THEN v.map[k] ELSE d

\* v * 100 raises TypeError on None and on a dict.
TimesRaises(v) == v.t \in {"null", "dict"}

\* v * 100: a float product, or the list repeated.
Times100(v) == IF v.t = "num" THEN Num(FMul100(v.bits)) ELSE v

\* format(v, ".2f") and v <= threshold raise unless v is a number.
NumericRaises(v) == v.t /= "num"

\* ------------------------------------------------------------------------
\* Performance thresholds (lines 12-16): 500, fl(0.1), fl(99.9)
\* ------------------------------------------------------------------------
THRESHOLDS ==
    [p95_latency_ms |-> FromHex(<<1, 15, 4>>, 0),
     error_rate_percent |->
         FromHex(<<1, 9, 9, 9, 9, 9, 9, 9, 9, 9, 9, 9, 9, 10>>, -56),
     success_rate_percent |->
         FromHex(<<1, 8, 15, 9, 9, 9, 9, 9, 9, 9, 9, 9, 9, 10>>, -46)]

\* ------------------------------------------------------------------------
\* extract_metrics (lines 35-71)
\* ------------------------------------------------------------------------
GroupNames ==
    <<"http_req_duration", "http_req_failed", "http_reqs", "iterations", "vus">>

\* Metric key -> field of the group's `values` it is read from.
GroupFields ==
    [http_req_duration |->
         [avg_latency |-> "avg", p95_latency |-> "p(95)",
          p99_latency |-> "p(99)", max_latency |-> "max"],
     http_req_failed |-> [error_rate |-> "rate"],
     http_reqs |-> [total_requests |-> "count", requests_per_second |-> "rate"],
     iterations |-> [total_iterations |-> "count"],
     vus |-> [max_vus |-> "max"]]

DefaultZero == Num(Zero)

Raised == [raised |-> TRUE, metrics |-> EmptyMap]
Extracted(m) == [raised |-> FALSE, metrics |-> m]

\* Variant: an absent group is read as a group with no fields.
ExtractGroup_AbsentAsEmpty(m, g) ==
    IF ~Contains(g, m)
    THEN IF g /= "http_req_failed"
         THEN Extracted([k \in DOMAIN GroupFields[g] |-> DefaultZero])
         ELSE Extracted([error_rate |-> Times100(DefaultZero)])
    ELSE IF SubscriptRaises(m, g) THEN Raised
    ELSE IF SubscriptRaises(Subscript(m, g), "values") THEN Raised
    ELSE LET values == Subscript(Subscript(m, g), "values")
             read == [k \in DOMAIN GroupFields[g] |->
                         Get(values, GroupFields[g][k], DefaultZero)]
         IN  IF GetRaises(values) THEN Raised
             ELSE IF g /= "http_req_failed" THEN Extracted(read)
             ELSE IF TimesRaises(read.error_rate) THEN Raised
             ELSE Extracted([error_rate |-> Times100(read.error_rate)])

\* One `if '<group>' in data['metrics']:` block, given m = data['metrics'].
ExtractGroup(m, g) ==
    IF ~Contains(g, m) THEN Extracted(EmptyMap)
    ELSE IF SubscriptRaises(m, g) THEN Raised
    ELSE IF SubscriptRaises(Subscript(m, g), "values") THEN Raised
    ELSE LET values == Subscript(Subscript(m, g), "values")
             read == [k \in DOMAIN GroupFields[g] |->
                         Get(values, GroupFields[g][k], DefaultZero)]
         IN  IF GetRaises(values) THEN Raised
             ELSE IF g /= "http_req_failed" THEN Extracted(read)
             ELSE IF TimesRaises(read.error_rate) THEN Raised
             ELSE Extracted([error_rate |-> Times100(read.error_rate)])

RECURSIVE ExtractGroups(_, _)
\* The group blocks from the i-th on, in source order.
ExtractGroups(m, i) ==
    IF i > Len(GroupNames) THEN Extracted(EmptyMap)
    ELSE LET first == ExtractGroup(m, GroupNames[i])
             rest == ExtractGroups(m, i + 1)
         IN  IF first.raised \/ rest.raised THEN Raised
             ELSE Extracted(first.metrics @@ rest.metrics)

extract_metrics(data) ==
    IF ContainsRaises(data) THEN Raised
    ELSE IF ~Contains("metrics", data) THEN Extracted(EmptyMap)
    ELSE IF SubscriptRaises(data, "metrics") THEN Raised
    ELSE IF ContainsRaises(Subscript(data, "metrics")) THEN Raised
    ELSE ExtractGroups(Subscript(data, "metrics"), 1)

\* ------------------------------------------------------------------------
\* check_threshold (lines 73-87): the value of `passed`
\* ------------------------------------------------------------------------
\* Variant: strict comparisons.
check_threshold_strict(value, threshold, lower_is_better) ==
    IF lower_is_better
    THEN Leq(value, threshold) /\ value /= threshold
    ELSE Leq(threshold, value) /\ value /= threshold

check_threshold(value, threshold, lower_is_better) ==
    IF lower_is_better THEN Leq(value, threshold) ELSE Leq(threshold, value)

\* Keys the summary block formats with :.0f / :.2f (lines 105-111).
SummaryKeys ==
    {"total_requests", "requests_per_second", "max_vus", "avg_latency",
     "p95_latency", "p99_latency", "error_rate"}

SummaryRaises(metrics) ==
    \E k \in SummaryKeys \cap DOMAIN metrics : NumericRaises(metrics[k])

\* ------------------------------------------------------------------------
\* Input files: what open() + json.load() meet at a path (lines 29-30)
\* ------------------------------------------------------------------------
\* A path that cannot be opened, or whose text is not JSON.
Unreadable == [t |-> "unreadable"]

\* A metric group object {"values": {...}}.
Group(f) == Dict("values" :> Dict(f))

Int450 == FromHex(<<1, 12, 2>>, 0)
Int500 == FromHex(<<1, 15, 4>>, 0)
Int600 == FromHex(<<2, 5, 8>>, 0)

\* fl(0.001) = 0x1.0624dd2f1a9fcp-10, the rate whose percentage is fl(0.1).
RateBoundary == FromHex(<<1, 0, 6, 2, 4, 13, 13, 2, 15, 1, 10, 9, 15, 12>>, -62)

RECURSIVE UlpsFrom(_, _)
\* The double k units in the last place away from a (a in [2^-10, 2^-9)).
UlpsFrom(a, k) ==
    IF k = 0 THEN a
    ELSE IF k > 0 THEN UlpsFrom(Add(a, Unit(-62)), k - 1)
    ELSE UlpsFrom(Sub(a, Unit(-62)), k + 1)

\* Failure-rate fractions in [0, 1]: 0, fl(0.0005), fl(0.002) and the
\* doubles around fl(0.001).
Rates ==
    {Zero,
     FromHex(<<1, 0, 6, 2, 4, 13, 13, 2, 15, 1, 10, 9, 15, 12>>, -63),
     FromHex(<<1, 0, 6, 2, 4, 13, 13, 2, 15, 1, 10, 9, 15, 12>>, -61)}
    \cup {UlpsFrom(RateBoundary, k) : k \in (0 - RateUlps)..RateUlps}

\* The http_req_duration entry of data['metrics']: absent, an object without
\* `values`, or a group whose p(95) is absent, a number or null.
DurationEntries ==
    {EmptyMap,
     "http_req_duration" :> Dict(EmptyMap),
     "http_req_duration" :> Group(EmptyMap),
     "http_req_duration" :> Group("p(95)" :> Null)}
    \cup {"http_req_duration" :> Group("p(95)" :> Num(v) @@ "avg" :> Num(Int450)) :
             v \in {Int450, Int500, Int600}}

\* The http_req_failed entry: absent, null, or a group whose rate is absent,
\* a number or null.
FailedEntries ==
    {EmptyMap,
     "http_req_failed" :> Null,
     "http_req_failed" :> Group(EmptyMap),
     "http_req_failed" :> Group("rate" :> Null)}
    \cup {"http_req_failed" :> Group("rate" :> Num(r)) : r \in Rates}

\* Documents with a metrics mapping.
MetricDocs ==
    {Dict("metrics" :> Dict(d @@ f)) : d \in DurationEntries, f \in FailedEntries}
    \cup {Dict("metrics" :> Dict("http_reqs" :> Group("count" :> Num(Int600)))),
          Dict("metrics" :> Dict("iterations" :> Group(EmptyMap)
                                 @@ "vus" :> Dict("values" :> Null))),
          Dict("metrics" :> Dict("vus" :> Group("max" :> Null)))}

\* Documents of other shapes: {}, null, 500, ["x"], ["metrics"],
\* {"other": null}, {"metrics": null}, {"metrics": ["http_reqs"]}.
ShapeDocs ==
    {Dict(EmptyMap), Null, Num(Int500), List({"x"}), List({"metrics"}),
     Dict("other" :> Null), Dict("metrics" :> Null),
     Dict("metrics" :> List({"http_reqs"}))}

Docs == MetricDocs \cup ShapeDocs

FileContents == {Unreadable} \cup Docs

\* load_results (lines 26-33): the parsed document, {} after an error.
load_results(content) ==
    IF content = Unreadable THEN Dict(EmptyMap) ELSE content

\* ------------------------------------------------------------------------
\* State
\* ------------------------------------------------------------------------
VARIABLES
    argc,         \* len(sys.argv) - 1
    pc,           \* position in main / analyze_results
    idx,          \* index of file_path in result_files
    all_passed,   \* main's all_passed
    data,         \* analyze_results' data
    metrics,      \* analyze_results' metrics
    file_passed,  \* analyze_results' all_passed, then its return value
    results,      \* values returned by the analyze_results calls so far
    out,          \* lines printed so far, by kind
    exit_code     \* process exit status, -1 while running

vars == <<argc, pc, idx, all_passed, data, metrics, file_passed, results, out,
          exit_code>>

Event(ev, file, name, ok) == [ev |-> ev, file |-> file, name |-> name, ok |-> ok]

Say(ev) == Event(ev, idx, "", FALSE)

Init ==
    /\ argc \in 0..MaxFiles
    /\ pc = "start"
    /\ idx = 0
    /\ all_passed = TRUE
    /\ data = Null
    /\ metrics = EmptyMap
    /\ file_passed = TRUE
    /\ results = <<>>
    /\ out = <<>>
    /\ exit_code = -1

\* ------------------------------------------------------------------------
\* Steps
\* ------------------------------------------------------------------------
\* An uncaught exception: traceback, interpreter exit status 1.
Crash(printed) ==
    /\ pc' = "crashed"
    /\ out' = Append(printed, Say("traceback"))
    /\ exit_code' = 1

\* `return <value>` of analyze_results.
ReturnOf(value) ==
    /\ pc' = "ret"
    /\ file_passed' = value

\* Variant: the usage message is printed but the run goes on.
Usage_NoExit ==
    /\ pc = "start"
    /\ argc + 1 < 2
    /\ out' = Append(out, Say("usage"))
    /\ all_passed' = TRUE
    /\ idx' = 1
    /\ pc' = "loop"
    /\ UNCHANGED <<argc, data, metrics, file_passed, results, exit_code>>

\* Variant: fewer than two file arguments are rejected.
Usage_TwoRequired ==
    /\ pc = "start"
    /\ argc + 1 < 3
    /\ out' = Append(out, Say("usage"))
    /\ exit_code' = 1
    /\ pc' = "exited"
    /\ UNCHANGED <<argc, idx, all_passed, data, metrics, file_passed, results>>

\* main, lines 153-155: no file argument.
Usage ==
    /\ pc = "start"
    /\ argc + 1 < 2
    /\ out' = Append(out, Say("usage"))
    /\ exit_code' = 1
    /\ pc' = "exited"
    /\ UNCHANGED <<argc, idx, all_passed, data, metrics, file_passed, results>>

\* main, lines 157-166: banner and threshold table.
Banner ==
    /\ pc = "start"
    /\ ~(argc + 1 < 2)
    /\ out' = Append(out, Say("banner"))
    /\ all_passed' = TRUE
    /\ idx' = 1
    /\ pc' = "loop"
    /\ UNCHANGED <<argc, data, metrics, file_passed, results, exit_code>>

\* main, lines 167-168 and analyze_results, lines 91-92: next file, header.
CallAnalyze ==
    /\ pc = "loop"
    /\ idx <= argc
    /\ out' = Append(out, Say("header"))
    /\ pc' = "load"
    /\ UNCHANGED <<argc, idx, all_passed, data, metrics, file_passed, results,
                   exit_code>>

\* analyze_results, line 94: data = load_results(file_path).
Load ==
    /\ pc = "load"
    /\ \E content \in FileContents :
          /\ data' = load_results(content)
          /\ out' = IF content = Unreadable
                    THEN Append(out, Say("load_error")) ELSE out
    /\ pc' = "loaded"
    /\ UNCHANGED <<argc, idx, all_passed, metrics, file_passed, results,
                   exit_code>>

\* analyze_results, lines 95-96: `if not data: return False`.
CheckData ==
    /\ pc = "loaded"
    /\ IF ~Truthy(data) THEN ReturnOf(FALSE)
       ELSE pc' = "extract" /\ UNCHANGED file_passed
    /\ UNCHANGED <<argc, idx, all_passed, data, metrics, results, out,
                   exit_code>>

\* analyze_results, line 98: metrics = extract_metrics(data).
Extract ==
    /\ pc = "extract"
    /\ LET r == extract_metrics(data)
       IN  IF r.raised THEN Crash(out) /\ UNCHANGED metrics
           ELSE /\ metrics' = r.metrics
                /\ pc' = "extracted"
                /\ UNCHANGED <<out, exit_code>>
    /\ UNCHANGED <<argc, idx, all_passed, data, file_passed, results>>

\* analyze_results, lines 99-116: no metrics, or the summary block.
CheckMetrics ==
    /\ pc = "extracted"
    /\ IF DOMAIN metrics = {}
       THEN /\ out' = Append(out, Say("no_metrics"))
            /\ ReturnOf(FALSE)
            /\ UNCHANGED exit_code
       ELSE IF SummaryRaises(metrics)
       THEN Crash(Append(out, Say("summary"))) /\ UNCHANGED file_passed
       ELSE /\ out' = Append(out, Say("summary"))
            /\ file_passed' = TRUE
            /\ pc' = "p95"
            /\ UNCHANGED exit_code
    /\ UNCHANGED <<argc, idx, all_passed, data, metrics, results>>

\* One `if key in metrics:` check block: skipped when the key is absent.
CheckBlock(key, name, value, threshold, lower_is_better, next) ==
    IF key \notin DOMAIN metrics
    THEN pc' = next /\ UNCHANGED <<file_passed, out, exit_code>>
    ELSE IF NumericRaises(metrics[key]) THEN Crash(out) /\ UNCHANGED file_passed
    ELSE LET passed == check_threshold(value, threshold, lower_is_better)
         IN  /\ out' = Append(out, Event("check", idx, name, passed))
             /\ file_passed' = (file_passed /\ passed)
             /\ pc' = next
             /\ UNCHANGED exit_code

\* analyze_results, lines 118-126.
CheckP95 ==
    /\ pc = "p95"
    /\ CheckBlock("p95_latency", "P95 Latency", metrics["p95_latency"].bits,
                  THRESHOLDS.p95_latency_ms, TRUE, "error_rate")
    /\ UNCHANGED <<argc, idx, all_passed, data, metrics, results>>

\* analyze_results, lines 128-136.
CheckErrorRate ==
    /\ pc = "error_rate"
    /\ CheckBlock("error_rate", "Error Rate", metrics["error_rate"].bits,
                  THRESHOLDS.error_rate_percent, TRUE, "success_rate")
    /\ UNCHANGED <<argc, idx, all_passed, data, metrics, results>>

\* analyze_results, lines 138-149: success_rate = 100 - error_rate.
CheckSuccessRate ==
    /\ pc = "success_rate"
    /\ CheckBlock("error_rate", "Success Rate",
                  FSub100(metrics["error_rate"].bits),
                  THRESHOLDS.success_rate_percent, FALSE, "ret")
    /\ UNCHANGED <<argc, idx, all_passed, data, metrics, results>>

\* Variant: the last file's result overwrites all_passed.
Return_Overwrite ==
    /\ pc = "ret"
    /\ results' = Append(results, file_passed)
    /\ all_passed' = file_passed
    /\ idx' = idx + 1
    /\ data' = Null
    /\ metrics' = EmptyMap
    /\ file_passed' = TRUE
    /\ pc' = "loop"
    /\ UNCHANGED <<argc, out, exit_code>>

\* main, lines 168-169: passed = analyze_results(...); fold into all_passed.
Return ==
    /\ pc = "ret"
    /\ results' = Append(results, file_passed)
    /\ all_passed' = (all_passed /\ file_passed)
    /\ idx' = idx + 1
    /\ data' = Null
    /\ metrics' = EmptyMap
    /\ file_passed' = TRUE
    /\ pc' = "loop"
    /\ UNCHANGED <<argc, out, exit_code>>

\* main, lines 171-178: final summary and exit status.
Final ==
    /\ pc = "loop"
    /\ idx > argc
    /\ out' = Append(out, Event("final", idx, "", all_passed))
    /\ exit_code' = IF all_passed THEN 0 ELSE 1
    /\ pc' = "exited"
    /\ UNCHANGED <<argc, idx, all_passed, data, metrics, file_passed, results>>

Next ==
    \/ Usage
    \/ Banner
    \/ CallAnalyze
    \/ Load
    \/ CheckData
    \/ Extract
    \/ CheckMetrics
    \/ CheckP95
    \/ CheckErrorRate
    \/ CheckSuccessRate
    \/ Return
    \/ Final

Spec == Init /\ [][Next]_vars

\* ------------------------------------------------------------------------
\* Vocabulary of the properties
\* ------------------------------------------------------------------------
Terminated == exit_code /= -1

\* Positions of the lines of kind ev printed for file i.
Lines(ev, i) == {k \in DOMAIN out : out[k].ev = ev /\ out[k].file = i}

\* Positions of the check lines called name printed for file i.
CheckLines(name, i) == {k \in Lines("check", i) : out[k].name = name}

\* The check called name was performed once for file i, with outcome ok.
Checked(name, i, ok) ==
    /\ Cardinality(CheckLines(name, i)) = 1
    /\ \A k \in CheckLines(name, i) : out[k].ok = ok

Printed(ev) == \E k \in DOMAIN out : out[k].ev = ev

\* data['metrics'] is a mapping.
HasMetricsMap(doc) ==
    /\ doc.t = "dict"
    /\ "metrics" \in DOMAIN doc.map
    /\ doc.map["metrics"].t = "dict"

GroupsOf(doc) == doc.map["metrics"].map

HasGroup(doc, g) == HasMetricsMap(doc) /\ g \in DOMAIN GroupsOf(doc)

\* The group g of doc is an object with a `values` mapping.
HasValues(doc, g) ==
    /\ HasGroup(doc, g)
    /\ GroupsOf(doc)[g].t = "dict"
    /\ "values" \in DOMAIN GroupsOf(doc)[g].map
    /\ GroupsOf(doc)[g].map["values"].t = "dict"

ValuesOf(doc, g) == GroupsOf(doc)[g].map["values"].map

\* Every recognized group doc holds has a `values` mapping whose recognized
\* fields are numbers or absent.
WellFormed(doc) ==
    /\ doc.t = "dict"
    /\ "metrics" \in DOMAIN doc.map => HasMetricsMap(doc)
    /\ \A i \in DOMAIN GroupNames :
          HasGroup(doc, GroupNames[i]) =>
              /\ HasValues(doc, GroupNames[i])
              /\ \A k \in DOMAIN GroupFields[GroupNames[i]] :
                    LET field == GroupFields[GroupNames[i]][k]
                        values == ValuesOf(doc, GroupNames[i])
                    IN  field \in DOMAIN values => values[field].t = "num"

\* The field of group g, 0 when absent (g has a `values` mapping).
FieldOrZero(doc, g, field) ==
    IF field \in DOMAIN ValuesOf(doc, g)
    THEN ValuesOf(doc, g)[field].bits ELSE Zero

\* ------------------------------------------------------------------------
\* C1: with at least one file argument the process exits with 0 iff
\* analyze_results returned true for every file, and with 1 otherwise; one
\* false result forces 1 wherever it stands.
\* ------------------------------------------------------------------------
C1_ExitIsAndOfResults ==
    (Terminated /\ argc >= 1) =>
        exit_code = IF Len(results) = argc /\ \A i \in 1..argc : results[i]
                    THEN 0 ELSE 1

\* A failing first file followed by a passing second one: exit code 1.
C1_Witness ==
    /\ pc = "exited"
    /\ argc >= 2
    /\ Len(results) = argc
    /\ ~results[1]
    /\ \A i \in 2..argc : results[i]
    /\ exit_code = 1

C6_NoArgumentsUsage ==
    argc = 0 =>
        \/ pc = "start" /\ out = <<>> /\ ~Terminated
        \/ /\ pc = "exited"
           /\ exit_code = 1
           /\ Len(out) = 1 /\ out[1].ev = "usage"
           /\ results = <<>>
           /\ data = Null

C6_Witness == argc = 0 /\ pc = "exited" /\ Printed("usage")

\* ------------------------------------------------------------------------
\* C7 as stated: zero or one argument after the program name is invalid
\* (usage, exit code 1, no file analysed).
\* ------------------------------------------------------------------------
C7_ZeroOrOneInvalid ==
    argc <= 1 =>
        /\ ~Printed("header")
        /\ Terminated => (Printed("usage") /\ exit_code = 1)

\* C7 amended: zero arguments after the program name is invalid (usage,
\* exit code 1, no file analysed); one argument is valid: no usage message
\* is printed and the file is analysed.
C7_OnlyZeroInvalid ==
    /\ argc = 0 => /\ ~Printed("header")
                   /\ Terminated => (Printed("usage") /\ exit_code = 1)
    /\ (argc = 1 /\ Terminated) =>
           /\ ~Printed("usage")
           /\ Cardinality(Lines("header", 1)) = 1

\* One file argument, analysed and passing: exit code 0.
C7_Witness ==
    /\ argc = 1
    /\ pc = "exited"
    /\ exit_code = 0
    /\ results = <<TRUE>>

\* ------------------------------------------------------------------------
\* C3: when a file cannot be read or parsed, no uncaught error is raised:
\* the error is reported, the document is empty, the file's result is
\* failure, and every later file is still analysed exactly once before the
\* process exits with code 1.
\* ------------------------------------------------------------------------
C3_LoadFailureContinues ==
    \A i \in 1..argc :
        Lines("load_error", i) /= {} =>
            /\ pc /= "crashed"
            /\ (pc = "loaded" /\ idx = i) => data = Dict(EmptyMap)
            /\ i <= Len(results) => ~results[i]
            /\ Terminated =>
                   /\ exit_code = 1
                   /\ Len(results) = argc
                   /\ \A j \in (i + 1)..argc :
                         Cardinality(Lines("header", j)) = 1

\* ------------------------------------------------------------------------
\* C4: extraction never fails the run: for every document load_results
\* parses, whatever its shape, extract_metrics raises nothing, the file
\* gets a result and the remaining files are processed up to the exit code.
\* ------------------------------------------------------------------------
C4_ExtractionNeverRaises ==
    /\ pc = "extract" => ~extract_metrics(data).raised
    /\ (Terminated /\ argc >= 1) => (pc = "exited" /\ Len(results) = argc)

\* ------------------------------------------------------------------------
\* C5: for a document with a recognized group but no http_req_failed group
\* there is no error_rate key, neither rate check is performed and the
\* file's result is the p95 check alone; with no http_req_duration group
\* either, no check is performed and the result is pass.
\* ------------------------------------------------------------------------
C5_NoFailedGroupSkipsRateChecks ==
    /\ (pc \in {"extracted", "p95", "error_rate", "success_rate", "ret"}
        /\ HasMetricsMap(data) /\ ~HasGroup(data, "http_req_failed")) =>
           /\ "error_rate" \notin DOMAIN metrics
           /\ CheckLines("Error Rate", idx) = {}
           /\ CheckLines("Success Rate", idx) = {}
    /\ (pc = "ret" /\ HasMetricsMap(data) /\ DOMAIN metrics /= {}
        /\ ~HasGroup(data, "http_req_failed")) =>
           IF HasGroup(data, "http_req_duration")
           THEN LET c1 == Leq(FieldOrZero(data, "http_req_duration", "p(95)"),
                              THRESHOLDS.p95_latency_ms)
                IN  file_passed = c1 /\ Checked("P95 Latency", idx, c1)
           ELSE file_passed /\ Lines("check", idx) = {}

\* A first file with neither group passed with no check, and a second file
\* with only the duration group fails on its p95 check.
C5_Witness ==
    /\ pc = "ret"
    /\ idx = 2
    /\ results = <<TRUE>>
    /\ Lines("summary", 1) /= {}
    /\ Lines("check", 1) = {}
    /\ HasGroup(data, "http_req_duration")
    /\ ~HasGroup(data, "http_req_failed")
    /\ ~file_passed

\* ------------------------------------------------------------------------
\* C8 as stated: whenever analysing a file ends with no metrics extracted
\* (load failure, empty document, no metrics entry, no recognized group),
\* an error message is printed for the file, the result is failure and no
\* check is performed.
\* ------------------------------------------------------------------------
C8_NoMetricsPrintsError ==
    (pc = "ret" /\ DOMAIN metrics = {}) =>
        /\ ~file_passed
        /\ Lines("check", idx) = {}
        /\ Lines("load_error", idx) \cup Lines("no_metrics", idx) /= {}

\* ------------------------------------------------------------------------
\* C9: a recognized group whose `values` mapping lacks a named field still
\* yields the metric's key with value 0 and never an error: a duration
\* group without p(95) gives p95_latency = 0, a failure group without rate
\* gives error_rate = 0, and their checks are performed and pass.
\* ------------------------------------------------------------------------
C9_MissingFieldDefaultsToZero ==
    /\ pc = "crashed" => ~WellFormed(data)
    /\ (pc \in {"extracted", "p95", "error_rate", "success_rate", "ret"}
        /\ DOMAIN metrics /= {}) =>
           /\ \A i \in DOMAIN GroupNames :
                 HasGroup(data, GroupNames[i]) =>
                     \A k \in DOMAIN GroupFields[GroupNames[i]] :
                         GroupFields[GroupNames[i]][k]
                                 \notin DOMAIN ValuesOf(data, GroupNames[i])
                             => /\ k \in DOMAIN metrics
                                /\ metrics[k] = Num(Zero)
           /\ (pc = "ret" /\ HasGroup(data, "http_req_duration")
               /\ "p(95)" \notin DOMAIN ValuesOf(data, "http_req_duration"))
                  => Checked("P95 Latency", idx, TRUE)
           /\ (pc = "ret" /\ HasGroup(data, "http_req_failed")
               /\ "rate" \notin DOMAIN ValuesOf(data, "http_req_failed"))
                  => /\ Checked("Error Rate", idx, TRUE)
                     /\ Checked("Success Rate", idx, TRUE)

\* Both groups present with empty `values`: three checks, all passing.
C9_Witness ==
    /\ pc = "ret"
    /\ HasValues(data, "http_req_duration")
    /\ HasValues(data, "http_req_failed")
    /\ DOMAIN ValuesOf(data, "http_req_duration") = {}
    /\ DOMAIN ValuesOf(data, "http_req_failed") = {}
    /\ metrics["p95_latency"] = Num(Zero)
    /\ metrics["error_rate"] = Num(Zero)
    /\ file_passed
    /\ Cardinality(Lines("check", idx)) = 3

\* ------------------------------------------------------------------------
\* C10: in every analysed file the error-rate check and the success-rate
\* check are both performed or both skipped and have the same outcome, so
\* no file passes one of the two rate checks while failing the other.
\* ------------------------------------------------------------------------
C10_RateChecksAgree ==
    \A i \in 1..argc :
        (i < idx \/ pc = "ret") =>
            /\ CheckLines("Error Rate", i) = {}
                   <=> CheckLines("Success Rate", i) = {}
            /\ \A j \in CheckLines("Error Rate", i) :
                   \A k \in CheckLines("Success Rate", i) :
                       out[j].ok = out[k].ok

====
